---------------------------- MODULE Spec2Model ----------------------------
(***************************************************************************)
(* A model of the SEBI circular scraper (src/new.py, src/app.py):          *)
(*   - scrape_recent_circulars        (Bulk Harvester, "harvest")          *)
(*   - extract_sebi_circulars_on_page (Paginator + Page Extractor)         *)
(*   - get_circular_text_from_link    (Detail Extractor, "extractBody")    *)
(* The browser and the site are the environment: every wait, navigation,   *)
(* click and page source is an outcome the environment chooses.            *)
(* Text is modelled by TLA+ strings; str.strip, str.startswith and         *)
(* "\n".join are computed character by character.                          *)
(***************************************************************************)
EXTENDS Integers, Sequences, FiniteSets, TLC

(***************************************************************************)
(* Bounds of the model.                                                    *)
(***************************************************************************)
MaxPageArg == 3      \* largest num_pages / page_number the caller passes
MaxSitePages == 3    \* largest number of listing pages the site has
MaxRows == 2         \* longest listing table of a single-page extraction
MaxNodes == 2        \* most child nodes of a detail page's content container
MaxCorpus == 3       \* most records of a corpus handed to the similarity search

(***************************************************************************)
(* Python values.                                                          *)
(***************************************************************************)
\* Python's None, for a missing href (link_tag.get('href') without the attribute).
None == "<None>"

\* str.strip() removes leading and trailing whitespace.
IsSpace(c) == c \in {" ", "\t", "\n"}

RECURSIVE lstrip(_)
lstrip(s) ==
    IF Len(s) > 0 /\ IsSpace(SubSeq(s, 1, 1))
    THEN lstrip(SubSeq(s, 2, Len(s)))
    ELSE s

RECURSIVE rstrip(_)
rstrip(s) ==
    IF Len(s) > 0 /\ IsSpace(SubSeq(s, Len(s), Len(s)))
    THEN rstrip(SubSeq(s, 1, Len(s) - 1))
    ELSE s

strip(s) == rstrip(lstrip(s))

\* str.startswith(prefix)
startswith(s, p) == Len(s) >= Len(p) /\ SubSeq(s, 1, Len(p)) = p

\* "\n".join(parts)
RECURSIVE join(_)
join(parts) ==
    IF Len(parts) = 0 THEN ""
    ELSE IF Len(parts) = 1 THEN parts[1]
    ELSE parts[1] \o "\n" \o join(Tail(parts))

\* Python truthiness of an Optional[str]: None and "" are falsy.
Truthy(v) == v # None /\ v # ""

(***************************************************************************)
(* The listing table (BeautifulSoup view of driver.page_source).           *)
(* A row is its <td> count, the text of the first cell, and the first <a>  *)
(* of the second cell (if any) with its title attribute, text and href.    *)
(***************************************************************************)
Row(n, c1, a, ht, t, at, h) ==
    [ncells |-> n, c1text |-> c1, hasA |-> a, hasTitle |-> ht,
     title |-> t, atext |-> at, href |-> h]

base_url == "https://www.sebi.gov.in"

\* new.py 126-130 / 183-186: relative links are prefixed with the origin.
AbsLinkNoPrefix(link) == link
AbsLink(link) ==
    IF Truthy(link) /\ ~(startswith(link, "http://") \/ startswith(link, "https://"))
    THEN base_url \o link
    ELSE link

\* new.py 120-136 / 177-187: one row of the table.
ParseRowAnyCells(row) ==
    IF row.hasA
    THEN << [Date |-> strip(row.c1text),
             Title |-> IF row.hasTitle THEN row.title ELSE strip(row.atext),
             Link |-> AbsLink(row.href)] >>
    ELSE << >>
ParseRow(row) ==
    IF row.ncells = 2 /\ row.hasA
    THEN << [Date |-> strip(row.c1text),
             Title |-> IF row.hasTitle THEN row.title ELSE strip(row.atext),
             Link |-> AbsLink(row.href)] >>
    ELSE << >>

\* new.py 119 / 176: for row in rows, appending in row order.
RECURSIVE ParseRows(_)
ParseRows(rows) ==
    IF Len(rows) = 0 THEN << >>
    ELSE ParseRow(Head(rows)) \o ParseRows(Tail(rows))

\* new.py 214: DataFrame.drop_duplicates(subset=['Link']), keep='first'.
\* A missing link (None) is a value like any other: pandas treats missing
\* values as equal to each other.
RECURSIVE DropFrom(_, _)
DropFrom(df, seen) ==
    IF Len(df) = 0 THEN << >>
    ELSE IF Head(df).Link \in seen
         THEN DropFrom(Tail(df), seen)
         ELSE << Head(df) >> \o DropFrom(Tail(df), seen \cup {Head(df).Link})

DropDuplicatesNone(df) == df
DropDuplicates(df) == DropFrom(df, {})


(***************************************************************************)
(* The site: rows and pages the browser may show.                          *)
(***************************************************************************)
rRel     == Row(2, " 01 Jan 2024 ", TRUE, TRUE, "Circular on Short Selling", " x ", "/x1")
rRelDup  == Row(2, "03 Jan 2024", TRUE, FALSE, "", " Short Selling again ", "/x1")
rAbs     == Row(2, "02 Jan 2024", TRUE, TRUE, " Framework ", "y", "https://www.sebi.gov.in/x2")
rHttp    == Row(2, "02 Jan 2024\n", TRUE, FALSE, "", "Master Circular", "http://a/x3")
rNoSlash == Row(2, "04 Jan 2024", TRUE, TRUE, "Relative", "", "x4")
rEmpty   == Row(2, "05 Jan 2024", TRUE, TRUE, "Empty href", "", "")
rNone    == Row(2, "06 Jan 2024", TRUE, TRUE, "No href", "", None)
rNone2   == Row(2, "07 Jan 2024", TRUE, TRUE, "No href either", "", None)
rNoA     == Row(2, "08 Jan 2024", FALSE, FALSE, "", "", None)
rHeader  == Row(1, "Date", FALSE, FALSE, "", "", None)
rThree   == Row(3, "09 Jan 2024", TRUE, TRUE, "Three cells", "", "/x9")

RowChoices ==
    {rRel, rRelDup, rAbs, rHttp, rNoSlash, rEmpty, rNone, rNoA, rHeader, rThree}

\* soup.find('table', id='sample_1') and table.find('tbody'):
\*   "rows"    the table and its body are there, with these <tr>
\*   "notable" the page source holds no such table
\*   "notbody" the table has no <tbody> (find returns None)
Page(k, rs) == [kind |-> k, rows |-> rs]
NoTablePage == Page("notable", << >>)
NoBodyPage == Page("notbody", << >>)

\* The pages a harvest may meet.
HarvestPages ==
    { Page("rows", << rRel, rAbs >>),
      Page("rows", << rHeader, rRelDup, rNone >>),
      Page("rows", << rNone2, rEmpty, rNoSlash >>),
      Page("rows", << rHttp, rNoA, rThree >>),
      Page("rows", << >>),
      NoTablePage, NoBodyPage }

\* maxRowsPerPage of the pages above
RECURSIVE MaxLen(_)
MaxLen(S) ==
    IF S = {} THEN 0
    ELSE LET x == CHOOSE y \in S : TRUE
             m == MaxLen(S \ {x})
         IN IF Len(x.rows) > m THEN Len(x.rows) ELSE m
maxRowsPerPage == MaxLen(HarvestPages)

\* The pages a single-page extraction may meet: every table of at most
\* MaxRows rows.
SeqsUpTo(S, n) == UNION { [1..k -> S] : k \in 0..n }
ExtractPages ==
    { Page("rows", rs) : rs \in SeqsUpTo(RowChoices, MaxRows) }
        \cup {NoTablePage, NoBodyPage}

(***************************************************************************)
(* A detail page (BeautifulSoup view): whether it has a <body>, the text   *)
(* nodes of the body outside the content container, whether it has a       *)
(* <div class="main_full">, and that container's children, each a <p> or a *)
(* bare text node holding one string.                                      *)
(***************************************************************************)
Node(tg, tx) == [tag |-> tg, text |-> tx]
NodeTexts == {"", " ", " a ", "b"}
NodeChoices == { Node(tg, tx) : tg \in {"p", "#text"}, tx \in NodeTexts }

Doc(b, pr, d, ns) == [hasBody |-> b, pre |-> pr, hasDiv |-> d, div |-> ns]
NoDoc == Doc(FALSE, << >>, FALSE, << >>)
DocChoices ==
    { Doc(b, pr, TRUE, ns) :
        b \in BOOLEAN, pr \in {<< >>, << " menu " >>},
        ns \in SeqsUpTo(NodeChoices, MaxNodes) }
    \cup { Doc(b, pr, FALSE, << >>) : b \in BOOLEAN, pr \in {<< >>, << " menu " >>} }

\* [s.strip() for s in strings if s.strip()]
RECURSIVE StrippedNonEmpty(_)
StrippedNonEmpty(strings) ==
    IF Len(strings) = 0 THEN << >>
    ELSE (IF strip(Head(strings)) # "" THEN << strip(Head(strings)) >> ELSE << >>)
             \o StrippedNonEmpty(Tail(strings))

\* The strings of a node list, in document order.
RECURSIVE Strings(_)
Strings(nodes) ==
    IF Len(nodes) = 0 THEN << >>
    ELSE << Head(nodes).text >> \o Strings(Tail(nodes))

\* content_div.find_all('p')
RECURSIVE find_all_p(_)
find_all_p(nodes) ==
    IF Len(nodes) = 0 THEN << >>
    ELSE (IF Head(nodes).tag = "p" THEN << Head(nodes) >> ELSE << >>)
             \o find_all_p(Tail(nodes))

\* tag.get_text(separator='\n', strip=True) over the strings below the tag.
get_text(strings) == join(StrippedNonEmpty(strings))

\* new.py 238-249 / app.py 181-194.  soup.body is None without a <body>:
\* the attribute access raises, which the caller's handler turns into "".
BodyRaises(d) == ~d.hasDiv /\ ~d.hasBody

PageTextBodyFallback(d) ==
    IF d.hasDiv
    THEN LET paragraphs == find_all_p(d.div)
             t == join(StrippedNonEmpty(Strings(paragraphs)))
         IN IF t = "" THEN get_text(d.pre \o Strings(d.div)) ELSE t
    ELSE get_text(d.pre)
PageText(d) ==
    IF d.hasDiv
    THEN LET paragraphs == find_all_p(d.div)
             t == join(StrippedNonEmpty(Strings(paragraphs)))
         IN IF t = "" THEN get_text(Strings(d.div)) ELSE t
    ELSE get_text(d.pre)


(***************************************************************************)
(* The external text service (new.py 279-282): what requests.post,         *)
(* raise_for_status and response.json() can produce.                       *)
(*   kind "network"  requests.post raises (no response)                    *)
(*   kind "http"     a response with a status; `valid` says whether its    *)
(*                   body decodes as JSON, `result` is the decoded value.  *)
(* A JSON object is a record (a missing key is a missing field), a JSON    *)
(* array a sequence, and << >> is both the empty array and the empty       *)
(* object.                                                                 *)
(***************************************************************************)
Resp(k, st, dt, v, r) ==
    [kind |-> k, status |-> st, detail |-> dt, valid |-> v, result |-> r]
NoResp == Resp("none", 0, "", FALSE, << >>)

Envelope(parts) == [candidates |-> << [content |-> [parts |-> parts]] >>]
Envelopes ==
    { Envelope(<< [text |-> "Short Selling, Framework"] >>),
      Envelope(<< [text |-> ""] >>),
      Envelope(<< [inlineData |-> "x"] >>),
      Envelope(<< >>),
      [candidates |-> << [content |-> [role |-> "model"]] >>],
      [candidates |-> << [content |-> << >>] >>],
      [candidates |-> << [finishReason |-> "SAFETY"] >>],
      [candidates |-> << >>],
      [promptFeedback |-> "blocked"] }

Responses ==
    { Resp("network", 0, "Connection refused", FALSE, << >>),
      Resp("http", 500, "500 Server Error: Internal Server Error", FALSE, << >>),
      Resp("http", 500, "500 Server Error: Internal Server Error", TRUE,
           Envelope(<< [text |-> "Short Selling, Framework"] >>)),
      Resp("http", 400, "400 Client Error: Bad Request", TRUE, [error |-> "x"]),
      Resp("http", 200, "Expecting value: line 1 column 1 (char 0)", FALSE, << >>) }
    \cup { Resp("http", 200, "", TRUE, e) : e \in Envelopes }

Svc0 == [input |-> "", link |-> "", resp |-> NoResp, reply |-> ""]
Sim0 == [keywords |-> "", corpus |-> << >>, exclude |-> "", result |-> << >>]
Kt0 == [frame |-> << >>, results |-> << >>, lines |-> << >>]
Sel0 ==
    [frame |-> << >>, choice |-> 0, option |-> "", date |-> "", title |-> "",
     link |-> "", status |-> "none", summary |-> ""]

(***************************************************************************)
(* State.                                                                  *)
(***************************************************************************)
VARIABLES
    op,            \* the entry point running: "none", "harvest", "extract", "detail"
    pc,            \* its position
    arg,           \* num_pages / page_number
    sitePages,     \* how many listing pages the site has
    browserPage,   \* the listing page the browser shows
    driver,        \* the session: "none", "open" (process alive), "closed" (quit)
    counter,       \* page_idx (harvest) / current_page (extract)
    data,          \* all_circulars_data / extracted_data
    visited,       \* per scraped page, the records parsed from it (history)
    shown,         \* the rows of the page an extraction parsed (history)
    outcome,       \* "running", "returned", "raised"
    ret,           \* the value returned
    cause,         \* where the operation left its normal path
    stats,         \* [opened, navs, clicks, cycles, failed, requests]: counts of calls
    doc,           \* the detail page get_circular_text_from_link parsed (history)
    text,          \* the string get_circular_text_from_link returned
    svc,           \* summarize / key terms: [input, link, resp, reply]
    sim,           \* find_similar_circulars_local: [keywords, corpus, exclude, result]
    kt,            \* extract_and_display_key_terms_async: [frame, results, lines]
    sel            \* a selection: [frame, choice, option, date, title, link, status, summary]

vars == << op, pc, arg, sitePages, browserPage, driver, counter, data,
           visited, shown, outcome, ret, cause, stats, doc, text, svc, sim, kt,
           sel >>

Stats0 ==
    [opened |-> 0, navs |-> 0, clicks |-> 0, cycles |-> 0, failed |-> 0,
     requests |-> 0]

Inc(s, f) == [s EXCEPT ![f] = @ + 1]

Init ==
    /\ op = "none"
    /\ pc = "idle"
    /\ arg = 0
    /\ sitePages \in 1..MaxSitePages
    /\ browserPage = 0
    /\ driver = "none"
    /\ counter = 0
    /\ data = << >>
    /\ visited = << >>
    /\ shown = << >>
    /\ outcome = "running"
    /\ ret = << >>
    /\ cause = "none"
    /\ stats = Stats0
    /\ doc = NoDoc
    /\ text = ""
    /\ svc = Svc0
    /\ sim = Sim0
    /\ kt = Kt0
    /\ sel = Sel0

(***************************************************************************)
(* The "Next" cycle both loops run (new.py 69-84 and 195-199):             *)
(* wait for the table, wait for a clickable Next, click, wait for the old  *)
(* table to go stale, wait for the new table.  The environment picks where *)
(* the cycle ends; a Next control exists on every page but the last.       *)
(***************************************************************************)
CycleOutcomes(bp, sp) ==
    {"timeout_old_table", "timeout_next", "error_wait"}
        \cup (IF bp < sp
              THEN {"ok", "error_click", "timeout_stale", "timeout_new_table"}
              ELSE {})

\* TimeoutException: caught by `except (NoSuchElementException,
\* TimeoutException, StaleElementReferenceException)`.
IsTimeout(o) ==
    o \in {"timeout_old_table", "timeout_next", "timeout_stale", "timeout_new_table"}

\* The click was executed (driver.execute_script returned).
Clicked(o) == o \in {"ok", "timeout_stale", "timeout_new_table"}

\* new.py 84: `current_page += 1` is the last statement of the try block, so
\* it runs only when every wait of the cycle succeeded.
\* new.py 67: the condition of `while current_page < page_number`.
LoopCondOffByOne(current_page, page_number) == current_page <= page_number
LoopCond(current_page, page_number) == current_page < page_number

\* new.py 192: `if page_idx < num_pages`, the advance after a page.
AdvanceDueAlways(page_idx, num_pages) == TRUE
AdvanceDue(page_idx, num_pages) == page_idx < num_pages

NextPageEager(current_page, o) == current_page + 1
NextPage(current_page, o) == IF o = "ok" THEN current_page + 1 ELSE current_page


(***************************************************************************)
(* initialize_driver (new.py 28-43; inline in app.py 53-60):               *)
(*   "ok"    a driver is returned                                          *)
(*   "none"  WebDriverException, caught: None is returned                  *)
(*   "error" ChromeDriverManager().install() raises something else         *)
(***************************************************************************)
InitOutcomes == {"ok", "none", "error"}

(***************************************************************************)
(* scrape_recent_circulars(num_pages)                        new.py 144-216 *)
(***************************************************************************)
\* new.py 210-216: quit the driver, drop duplicate links, return the frame.
HarvestFinishEmpty(df, why) ==
    /\ driver' = "closed"
    /\ data' = df
    /\ ret' = IF why = "none" THEN DropDuplicates(df) ELSE << >>
    /\ outcome' = "returned"
    /\ cause' = why
    /\ pc' = "done"
HarvestFinish(df, why) ==
    /\ driver' = "closed"
    /\ data' = df
    /\ ret' = DropDuplicates(df)
    /\ outcome' = "returned"
    /\ cause' = why
    /\ pc' = "done"

\* new.py 149-158: the argument check and initialize_driver.
HarvestCall ==
    /\ pc = "idle"
    /\ \E n \in 0..MaxPageArg, i \in InitOutcomes :
         /\ op' = "harvest"
         /\ arg' = n
         /\ IF n <= 0
            THEN /\ pc' = "done" /\ outcome' = "returned" /\ ret' = << >>
                 /\ cause' = "bad_arg"
                 /\ UNCHANGED << driver, stats >>
            ELSE IF i = "none"
            THEN /\ pc' = "done" /\ outcome' = "returned" /\ ret' = << >>
                 /\ cause' = "init_failed"
                 /\ UNCHANGED << driver, stats >>
            ELSE IF i = "error"
            THEN /\ pc' = "done" /\ outcome' = "raised"
                 /\ cause' = "init_error"
                 /\ UNCHANGED << driver, stats, ret >>
            ELSE /\ pc' = "h_get" /\ driver' = "open"
                 /\ stats' = Inc(stats, "opened")
                 /\ UNCHANGED << outcome, ret, cause >>
    /\ UNCHANGED << sitePages, browserPage, counter, data, visited, shown, doc, text, svc, sim, kt, sel >>

\* new.py 160-161: driver.get(url), outside every try block.
HarvestGet ==
    /\ pc = "h_get"
    /\ stats' = Inc(stats, "navs")
    /\ \E ok \in BOOLEAN :
         IF ok
         THEN /\ pc' = "h_page" /\ browserPage' = 1 /\ counter' = 1
              /\ UNCHANGED << outcome, cause >>
         ELSE /\ pc' = "done" /\ outcome' = "raised" /\ cause' = "navigation"
              /\ UNCHANGED << browserPage, counter >>
    /\ UNCHANGED << op, arg, sitePages, driver, data, visited, shown, ret, doc, text, svc, sim, kt, sel >>

\* new.py 163-190, 204-209: one page of the loop: wait for the table, parse
\* the page source, append its records.
HarvestPage ==
    /\ pc = "h_page"
    /\ \E w \in {"ok", "timeout", "error"}, pg \in HarvestPages :
         IF w = "timeout"
         THEN HarvestFinish(data, "table_timeout") /\ UNCHANGED << counter, visited >>
         ELSE IF w = "error"
         THEN HarvestFinish(data, "table_error") /\ UNCHANGED << counter, visited >>
         ELSE IF pg.kind = "notable"
         THEN HarvestFinish(data, "no_table") /\ UNCHANGED << counter, visited >>
         ELSE IF pg.kind = "notbody"
         THEN HarvestFinish(data, "no_tbody") /\ UNCHANGED << counter, visited >>
         ELSE LET page_data == ParseRows(pg.rows) IN
              /\ visited' = Append(visited, page_data)
              /\ IF AdvanceDue(counter, arg)
                 THEN /\ data' = data \o page_data
                      /\ pc' = "h_adv"
                      /\ UNCHANGED << driver, ret, outcome, cause, counter >>
                 ELSE /\ HarvestFinish(data \o page_data, "none")
                      /\ UNCHANGED counter
    /\ UNCHANGED << op, arg, sitePages, browserPage, shown, stats, doc, text, svc, sim, kt, sel >>

\* new.py 192-202: the advance to the next page.
HarvestAdvance ==
    /\ pc = "h_adv"
    /\ \E o \in CycleOutcomes(browserPage, sitePages) :
         /\ browserPage' = IF Clicked(o) THEN browserPage + 1 ELSE browserPage
         /\ LET s1 == Inc(stats, "cycles")
                s2 == IF Clicked(o) \/ o = "error_click" THEN Inc(s1, "clicks") ELSE s1
            IN stats' = IF o = "ok" THEN s2 ELSE Inc(s2, "failed")
         /\ IF o = "ok"
            THEN /\ counter' = counter + 1
                 /\ pc' = "h_page"
                 /\ UNCHANGED << driver, data, ret, outcome, cause >>
            ELSE IF IsTimeout(o)
            THEN \* except (NoSuchElementException, TimeoutException, ...): break
                 HarvestFinish(data, o) /\ UNCHANGED counter
            ELSE \* except Exception: break
                 HarvestFinish(data, o) /\ UNCHANGED counter
    /\ UNCHANGED << op, arg, sitePages, visited, shown, doc, text, svc, sim, kt, sel >>

(***************************************************************************)
(* extract_sebi_circulars_on_page(page_number)   new.py 46-141, app.py 25-148 *)
(***************************************************************************)
\* `if driver: driver.quit()` followed by `return pd.DataFrame(...)`.
ExtractReturn(df, why) ==
    /\ driver' = "closed"
    /\ ret' = df
    /\ outcome' = "returned"
    /\ cause' = why
    /\ pc' = "done"

\* An exception no handler catches: it leaves the function at once.
ExtractRaise(why) ==
    /\ outcome' = "raised"
    /\ cause' = why
    /\ pc' = "done"
    /\ UNCHANGED << driver, ret >>

\* new.py 51-57: the argument check and initialize_driver.
ExtractCall ==
    /\ pc = "idle"
    /\ \E n \in 0..MaxPageArg, i \in InitOutcomes :
         /\ op' = "extract"
         /\ arg' = n
         /\ IF n <= 0
            THEN /\ pc' = "done" /\ outcome' = "returned" /\ ret' = << >>
                 /\ cause' = "bad_arg"
                 /\ UNCHANGED << driver, stats >>
            ELSE IF i = "none"
            THEN /\ pc' = "done" /\ outcome' = "returned" /\ ret' = << >>
                 /\ cause' = "init_failed"
                 /\ UNCHANGED << driver, stats >>
            ELSE IF i = "error"
            THEN /\ pc' = "done" /\ outcome' = "raised"
                 /\ cause' = "init_error"
                 /\ UNCHANGED << driver, stats, ret >>
            ELSE /\ pc' = "e_get" /\ driver' = "open"
                 /\ stats' = Inc(stats, "opened")
                 /\ UNCHANGED << outcome, ret, cause >>
    /\ UNCHANGED << sitePages, browserPage, counter, data, visited, shown, doc, text, svc, sim, kt, sel >>

\* new.py 59-64: driver.get(url), outside every try block; current_page = 1.
ExtractGet ==
    /\ pc = "e_get"
    /\ stats' = Inc(stats, "navs")
    /\ \E ok \in BOOLEAN :
         IF ok
         THEN /\ pc' = "e_loop" /\ browserPage' = 1 /\ counter' = 1
              /\ UNCHANGED << outcome, cause >>
         ELSE /\ pc' = "done" /\ outcome' = "raised" /\ cause' = "navigation"
              /\ UNCHANGED << browserPage, counter >>
    /\ UNCHANGED << op, arg, sitePages, driver, data, visited, shown, ret, doc, text, svc, sim, kt, sel >>

\* new.py 67-89: one turn of `while current_page < page_number`.
ExtractCycle ==
    /\ pc = "e_loop"
    /\ LoopCond(counter, arg)
    /\ \E o \in CycleOutcomes(browserPage, sitePages) :
         /\ browserPage' = IF Clicked(o) THEN browserPage + 1 ELSE browserPage
         /\ LET s1 == Inc(stats, "cycles")
                s2 == IF Clicked(o) \/ o = "error_click" THEN Inc(s1, "clicks") ELSE s1
            IN stats' = IF o = "ok" THEN s2 ELSE Inc(s2, "failed")
         /\ counter' = NextPage(counter, o)
         /\ IF o = "ok"
            THEN UNCHANGED << pc, driver, ret, outcome, cause >>
            ELSE IF IsTimeout(o)
            THEN ExtractReturn(<< >>, o)
            ELSE ExtractRaise(o)
    /\ UNCHANGED << op, arg, sitePages, data, visited, shown, doc, text, svc, sim, kt, sel >>

\* new.py 91-141: on the target page: wait for the table, parse, quit, return.
ExtractTarget ==
    /\ pc = "e_loop"
    /\ ~LoopCond(counter, arg)
    /\ \E w \in {"ok", "timeout", "error"}, pg \in ExtractPages :
         IF w = "timeout"
         THEN ExtractReturn(<< >>, "table_timeout") /\ UNCHANGED << data, shown >>
         ELSE IF w = "error"
         THEN ExtractRaise("table_error") /\ UNCHANGED << data, shown >>
         ELSE IF pg.kind = "notable"
         THEN ExtractReturn(<< >>, "no_table") /\ UNCHANGED << data, shown >>
         ELSE IF pg.kind = "notbody"
         THEN ExtractRaise("no_tbody") /\ UNCHANGED << data, shown >>
         ELSE IF Len(pg.rows) = 0
         THEN ExtractReturn(<< >>, "no_rows") /\ shown' = pg.rows /\ UNCHANGED data
         ELSE LET extracted_data == ParseRows(pg.rows) IN
              /\ data' = extracted_data
              /\ shown' = pg.rows
              /\ ExtractReturn(extracted_data, "none")
    /\ UNCHANGED << op, arg, sitePages, browserPage, counter, visited, stats, doc, text, svc, sim, kt, sel >>

(***************************************************************************)
(* get_circular_text_from_link(link)        new.py 219-255, app.py 150-200 *)
(* The whole body is one try / except Exception / finally.                 *)
(***************************************************************************)
\* `return ""` or `return text`, then `finally: if driver: driver.quit()`.
DetailReturnNoFinally(t, why) ==
    /\ driver' = IF why = "none" /\ driver = "open" THEN "closed" ELSE driver
    /\ text' = t
    /\ outcome' = "returned"
    /\ cause' = why
    /\ pc' = "done"
DetailReturn(t, why) ==
    /\ driver' = IF driver = "open" THEN "closed" ELSE driver
    /\ text' = t
    /\ outcome' = "returned"
    /\ cause' = why
    /\ pc' = "done"

\* new.py 223-227: initialize_driver inside the try block.
DetailCall ==
    /\ pc = "idle"
    /\ op' = "detail"
    /\ \E i \in InitOutcomes :
         IF i = "ok"
         THEN /\ pc' = "d_get" /\ driver' = "open"
              /\ stats' = Inc(stats, "opened")
              /\ UNCHANGED << outcome, cause, text >>
         ELSE /\ DetailReturn("", IF i = "none" THEN "init_failed" ELSE "init_error")
              /\ UNCHANGED stats
    /\ UNCHANGED << arg, sitePages, browserPage, counter, data, visited, shown, ret, doc, svc, sim, kt, sel >>

\* new.py 229-230: driver.get(link).
DetailGet ==
    /\ pc = "d_get"
    /\ stats' = Inc(stats, "navs")
    /\ \E ok \in BOOLEAN :
         IF ok
         THEN /\ pc' = "d_read"
              /\ UNCHANGED << driver, outcome, cause, text >>
         ELSE DetailReturn("", "navigation")
    /\ UNCHANGED << op, arg, sitePages, browserPage, counter, data, visited, shown, ret, doc, svc, sim, kt, sel >>

\* new.py 232-255: wait for the body, parse the page source, pick the text.
DetailRead ==
    /\ pc = "d_read"
    /\ \E w \in {"ok", "timeout", "error"}, d \in DocChoices :
         IF w = "timeout"
         THEN DetailReturn("", "body_timeout") /\ UNCHANGED doc
         ELSE IF w = "error"
         THEN DetailReturn("", "body_error") /\ UNCHANGED doc
         ELSE /\ doc' = d
              /\ IF BodyRaises(d)
                 THEN DetailReturn("", "no_body")
                 ELSE DetailReturn(PageText(d), "none")
    /\ UNCHANGED << op, arg, sitePages, browserPage, counter, data, visited, shown, ret, stats, svc, sim, kt, sel >>


(***************************************************************************)
(* summarize_circular_text(circular_text, circular_link)                   *)
(*                                      new.py 258-300, app.py 202-251     *)
(* extract_key_terms_from_title(title)  new.py 303-345                     *)
(***************************************************************************)
\* new.py 262 / 307: `if not circular_text.strip()`.
IsBlankNoStrip(t) == t = ""
IsBlank(t) == strip(t) = ""

\* response.raise_for_status(): HTTPError for a 4xx or 5xx status.
RaisesForStatusNever(r) == FALSE
RaisesForStatus(r) == r.status >= 400 /\ r.status < 600

\* dict.get(key) is there and truthy (a non-empty array or object).
GetTruthy(d, k) == k \in DOMAIN d /\ DOMAIN d[k] # {}

\* new.py 284-286 / 329-331: the condition on the decoded envelope.
HasParts(result) ==
    /\ GetTruthy(result, "candidates")
    /\ Len(result.candidates) > 0
    /\ GetTruthy(result.candidates[1], "content")
    /\ GetTruthy(result.candidates[1].content, "parts")
    /\ Len(result.candidates[1].content.parts) > 0

\* new.py 287 / 332: parts[0].get('text', default)
PartText(result, default) ==
    LET part == result.candidates[1].content.parts[1]
    IN IF "text" \in DOMAIN part THEN part.text ELSE default

\* The fixed strings of the two clients.
Strings_summarize ==
    [guidance |-> "Please provide text to summarize.",
     default |-> "No summary text found.",
     unexpected |-> "Failed to get summary: Unexpected API response structure.",
     request |-> "An error occurred while summarizing: ",
     decode |-> "An error occurred while processing API response: "]
Strings_keywords ==
    [guidance |-> "No title provided for key term extraction.",
     default |-> "No key terms found.",
     unexpected |-> "Failed to get key terms: Unexpected API response structure.",
     request |-> "An error occurred while extracting key terms: ",
     decode |-> "An error occurred while processing API response for key terms: "]
StringsOf(which) == IF which = "summarize" THEN Strings_summarize ELSE Strings_keywords

LinkSuffix(link) == "\n\n[Original Circular Link](" \o link \o ")"

\* new.py 279-300 / 324-345: the try block and its handlers.  A body that
\* does not decode raises requests' JSONDecodeError, which newer releases
\* derive from RequestException (first handler) and older ones only from
\* json.JSONDecodeError (second handler): `viaRequest` is which one applies.
ServiceReply(which, r, link, viaRequest) ==
    LET S == StringsOf(which) IN
    IF r.kind = "network" THEN S.request \o r.detail
    ELSE IF RaisesForStatus(r) THEN S.request \o r.detail
    ELSE IF ~r.valid
         THEN (IF viaRequest THEN S.request ELSE S.decode) \o r.detail
    ELSE IF HasParts(r.result)
         THEN IF which = "summarize"
              THEN PartText(r.result, S.default) \o LinkSuffix(link)
              ELSE PartText(r.result, S.default)
    ELSE S.unexpected

ServiceTexts == {"", " \n", " Circular body "}
ServiceLinks == {"https://www.sebi.gov.in/x1"}

\* new.py 262-277 / 307-322: the guard on the input, before any request.
ServiceCall(which) ==
    /\ pc = "idle"
    /\ op' = which
    /\ \E t \in ServiceTexts, l \in ServiceLinks :
         LET link == IF which = "summarize" THEN l ELSE "" IN
         IF IsBlank(t)
         THEN /\ svc' = [input |-> t, link |-> link, resp |-> NoResp,
                         reply |-> StringsOf(which).guidance]
              /\ pc' = "done" /\ outcome' = "returned"
         ELSE /\ svc' = [input |-> t, link |-> link, resp |-> NoResp, reply |-> ""]
              /\ pc' = "s_post" /\ UNCHANGED outcome
    /\ UNCHANGED << arg, sitePages, browserPage, driver, counter, data, visited,
                    shown, ret, cause, stats, doc, text, sim, kt, sel >>

\* new.py 279-300 / 324-345: the request and the reading of its response.
ServicePost(which) ==
    /\ pc = "s_post" /\ op = which
    /\ stats' = Inc(stats, "requests")
    /\ \E r \in Responses, viaRequest \in BOOLEAN :
         svc' = [svc EXCEPT !.resp = r,
                            !.reply = ServiceReply(which, r, svc.link, viaRequest)]
    /\ pc' = "done" /\ outcome' = "returned"
    /\ UNCHANGED << op, arg, sitePages, browserPage, driver, counter, data, visited,
                    shown, ret, cause, doc, text, sim, kt, sel >>

SummarizeCall == ServiceCall("summarize")
SummarizePost == ServicePost("summarize")
KeywordsCall == ServiceCall("keywords")
KeywordsPost == ServicePost("keywords")

(***************************************************************************)
(* find_similar_circulars_local(keywords_str, all_circulars_df,            *)
(*                              original_title)          new.py 348-380    *)
(***************************************************************************)
\* The characters of the model's texts, in code point order: str comparison
\* and str.lower work on code points.
Alphabet ==
    "\t\n &()+,-.0123456789ABCDEFGHIJKLMNOPQRSTUVWXYZ_abcdefghijklmnopqrstuvwxyz"
Upper == "ABCDEFGHIJKLMNOPQRSTUVWXYZ"
Lowercase == "abcdefghijklmnopqrstuvwxyz"
Digits == "0123456789"

\* The position of character c in string cs, 0 when it is not there.
IndexIn(cs, c) ==
    IF \E i \in 1..Len(cs) : SubSeq(cs, i, i) = c
    THEN CHOOSE i \in 1..Len(cs) : SubSeq(cs, i, i) = c
    ELSE 0

CharAt(s, i) == SubSeq(s, i, i)

\* str.lower()
RECURSIVE lower(_)
lower(s) ==
    IF Len(s) = 0 THEN ""
    ELSE LET c == CharAt(s, 1)
             u == IndexIn(Upper, c)
         IN (IF u > 0 THEN CharAt(Lowercase, u) ELSE c) \o lower(SubSeq(s, 2, Len(s)))

\* str.split(sep) for a one-character separator.
RECURSIVE SplitFrom(_, _, _)
SplitFrom(s, sep, cur) ==
    IF Len(s) = 0 THEN << cur >>
    ELSE IF CharAt(s, 1) = sep
         THEN << cur >> \o SplitFrom(SubSeq(s, 2, Len(s)), sep, "")
         ELSE SplitFrom(SubSeq(s, 2, Len(s)), sep, cur \o CharAt(s, 1))
split(s, sep) == SplitFrom(s, sep, "")

\* new.py 356: [k.strip().lower() for k in keywords_str.split(',') if k.strip()]
RECURSIVE CleanKeywords(_)
CleanKeywords(parts) ==
    IF Len(parts) = 0 THEN << >>
    ELSE (IF strip(Head(parts)) # "" THEN << lower(strip(Head(parts))) >> ELSE << >>)
             \o CleanKeywords(Tail(parts))
ParseKeywords(keywords_str) == CleanKeywords(split(keywords_str, ","))

\* \w of the regular expression.
IsWordChar(c) == IndexIn(Upper \o Lowercase \o Digits \o "_", c) > 0

\* \b at position p of t (between characters p - 1 and p): exactly one of
\* the two sides is a word character; beyond the ends counts as none.
IsWordAt(t, p) == p >= 1 /\ p <= Len(t) /\ IsWordChar(CharAt(t, p))
Boundary(t, p) == IsWordAt(t, p - 1) # IsWordAt(t, p)

\* new.py 365, 370: re.search(r'\b(?:k1|k2|...)\b', t) with every keyword
\* escaped, i.e. matched literally.
SearchNoBoundary(keywords, t) ==
    \E n \in 1..Len(keywords) : \E i \in 1..(Len(t) - Len(keywords[n]) + 1) :
        SubSeq(t, i, i + Len(keywords[n]) - 1) = keywords[n]
Search(keywords, t) ==
    \E n \in 1..Len(keywords) : \E i \in 1..(Len(t) - Len(keywords[n]) + 1) :
        /\ SubSeq(t, i, i + Len(keywords[n]) - 1) = keywords[n]
        /\ Boundary(t, i)
        /\ Boundary(t, i + Len(keywords[n]))

\* new.py 371: Title.str.strip() != original_title.strip()
SameTitleNoStrip(title, original_title) == title = original_title
SameTitle(title, original_title) == strip(title) = strip(original_title)

\* new.py 375: pd.to_datetime(Date, format='%d %b %Y', errors='coerce').
\* The value is a day number that orders dates; NaT for a text that does not
\* parse.
NaT == -1
Months == << "jan", "feb", "mar", "apr", "may", "jun",
             "jul", "aug", "sep", "oct", "nov", "dec" >>
IsDigits(s) == Len(s) > 0 /\ \A i \in 1..Len(s) : IndexIn(Digits, CharAt(s, i)) > 0
RECURSIVE ToInt(_)
ToInt(s) ==
    IF Len(s) = 0 THEN 0
    ELSE 10 * ToInt(SubSeq(s, 1, Len(s) - 1)) + (IndexIn(Digits, CharAt(s, Len(s))) - 1)
MonthOf(s) ==
    IF \E m \in 1..12 : Months[m] = lower(s)
    THEN CHOOSE m \in 1..12 : Months[m] = lower(s)
    ELSE 0
IsLeap(y) == (y % 4 = 0 /\ y % 100 # 0) \/ y % 400 = 0
DaysIn(m, y) ==
    IF m = 2 THEN (IF IsLeap(y) THEN 29 ELSE 28)
    ELSE IF m \in {4, 6, 9, 11} THEN 30 ELSE 31
to_datetime(s) ==
    LET f == split(s, " ") IN
    IF Len(f) # 3 THEN NaT
    ELSE IF ~(IsDigits(f[1]) /\ Len(f[1]) <= 2 /\ IsDigits(f[3]) /\ Len(f[3]) = 4)
         THEN NaT
    ELSE LET d == ToInt(f[1])  m == MonthOf(f[2])  y == ToInt(f[3]) IN
         IF m = 0 \/ d < 1 \/ d > DaysIn(m, y) THEN NaT
         ELSE (y * 12 + (m - 1)) * 31 + d

\* Python's str < str: by code point, a proper prefix first.
RECURSIVE StrLess(_, _)
StrLess(a, b) ==
    IF Len(b) = 0 THEN FALSE
    ELSE IF Len(a) = 0 THEN TRUE
    ELSE IF CharAt(a, 1) = CharAt(b, 1)
         THEN StrLess(SubSeq(a, 2, Len(a)), SubSeq(b, 2, Len(b)))
         ELSE IndexIn(Alphabet, CharAt(a, 1)) < IndexIn(Alphabet, CharAt(b, 1))

\* new.py 376: sort_values(by=['Date_Parsed', 'Title'], ascending=[False,
\* True]): record a goes before record b.  NaT goes last (na_position).
BeforeAscending(a, b) ==
    LET da == to_datetime(a.Date)  db == to_datetime(b.Date) IN
    IF da # db THEN da < db ELSE StrLess(a.Title, b.Title)
Before(a, b) ==
    LET da == to_datetime(a.Date)  db == to_datetime(b.Date) IN
    IF da = NaT /\ db = NaT THEN StrLess(a.Title, b.Title)
    ELSE IF da = NaT THEN FALSE
    ELSE IF db = NaT THEN TRUE
    ELSE IF da # db THEN da > db
    ELSE StrLess(a.Title, b.Title)

\* The sort is stable: x goes after every record that is not after it.
RECURSIVE InsertSorted(_, _)
InsertSorted(sorted, x) ==
    IF Len(sorted) = 0 THEN << x >>
    ELSE IF Before(x, Head(sorted))
         THEN << x >> \o sorted
         ELSE << Head(sorted) >> \o InsertSorted(Tail(sorted), x)
RECURSIVE sort_values(_)
sort_values(df) ==
    IF Len(df) = 0 THEN << >>
    ELSE InsertSorted(sort_values(SubSeq(df, 1, Len(df) - 1)), df[Len(df)])

\* new.py 369-372: the rows whose lower-cased title the pattern finds and
\* whose title is not the original one.
RECURSIVE FilterSimilar(_, _, _)
FilterSimilar(df, keywords, original_title) ==
    IF Len(df) = 0 THEN << >>
    ELSE (IF Search(keywords, lower(Head(df).Title))
             /\ ~SameTitle(Head(df).Title, original_title)
          THEN << Head(df) >> ELSE << >>)
             \o FilterSimilar(Tail(df), keywords, original_title)

\* new.py 353-380
find_similar_circulars_local(keywords_str, all_circulars_df, original_title) ==
    IF Len(all_circulars_df) = 0 \/ strip(keywords_str) = "" THEN << >>
    ELSE LET keywords == ParseKeywords(keywords_str) IN
         IF Len(keywords) = 0 THEN << >>
         ELSE sort_values(FilterSimilar(all_circulars_df, keywords, original_title))

\* Records, keyword strings and titles the search is given.
Rec(d, t, l) == [Date |-> d, Title |-> t, Link |-> l]
CorpusRecords ==
    { Rec("01 Jan 2024", "Framework for Short Selling", "https://www.sebi.gov.in/x1"),
      Rec("15 Feb 2024", " Framework for Short Selling ", "https://www.sebi.gov.in/x2"),
      Rec("1 Jan 2024", "Circular on Short Selling", "https://www.sebi.gov.in/x3"),
      Rec("2024-01-05", "Selling of shortlisted Shares", "https://www.sebi.gov.in/x4"),
      Rec("31 Dec 2023", "Amendment to SEBI (LODR) Regulations", "https://www.sebi.gov.in/x5") }
KeywordStrings ==
    { "short,selling", " Short , ,FRAMEWORK ", "SEBI (LODR), Shares", " , " }
ExcludeTitles ==
    { "Framework for Short Selling ", "Amendment to SEBI (LODR) Regulations" }

\* The corpus is a frame scrape_recent_circulars returned: no two of its
\* records have the same link.
Corpora ==
    { c \in SeqsUpTo(CorpusRecords, MaxCorpus) :
        \A i, j \in 1..Len(c) : i # j => c[i].Link # c[j].Link }

FindSimilarCall ==
    /\ pc = "idle"
    /\ op' = "similar"
    /\ \E k \in KeywordStrings, c \in Corpora,
          x \in ExcludeTitles :
         sim' = [keywords |-> k, corpus |-> c, exclude |-> x,
                 result |-> find_similar_circulars_local(k, c, x)]
    /\ pc' = "done" /\ outcome' = "returned"
    /\ UNCHANGED << arg, sitePages, browserPage, driver, counter, data, visited,
                    shown, ret, cause, stats, doc, text, svc, kt, sel >>

(***************************************************************************)
(* extract_and_display_key_terms_async(df)               new.py 461-483    *)
(***************************************************************************)
\* Python's `sub in s`.
StrIn(sub, s) ==
    \E i \in 1..(Len(s) - Len(sub) + 1) : SubSeq(s, i, i + Len(sub) - 1) = sub

\* pd.DataFrame(list of records) and pd.concat(..., ignore_index=True): the
\* row labels are 0..n-1.
RangeIndexed(recs) ==
    [i \in 1..Len(recs) |->
        [label |-> i - 1, Date |-> recs[i].Date, Title |-> recs[i].Title,
         Link |-> recs[i].Link]]

\* The frames the program makes: of one page (new.py 141), of a harvest
\* (new.py 189, 214: drop_duplicates keeps the labels of the rows it keeps)
\* and of a similarity search (new.py 376: sort_values keeps the labels).
FromExtract(recs) == RangeIndexed(recs)
FromHarvest(recs) == DropDuplicates(RangeIndexed(recs))
FromSimilar(recs) == sort_values(RangeIndexed(recs))

KeyTermsRecords ==
    { Rec("01 Jan 2024", "Framework for Short Selling", "https://www.sebi.gov.in/x1"),
      Rec("1 Jan 2024", "Circular on Short Selling", "https://www.sebi.gov.in/x3") }
KeyTermsFrames ==
    UNION { {FromExtract(recs), FromHarvest(recs), FromSimilar(recs)} :
              recs \in SeqsUpTo(KeyTermsRecords, MaxCorpus) }

\* What the service may answer to the request for one title.
TitleResponses(title) ==
    { Resp("http", 200, "", TRUE, Envelope(<< [text |-> "terms of " \o title] >>)),
      Resp("http", 200, "", TRUE, [candidates |-> << >>]) }

\* new.py 303-345 for one title.
extract_key_terms_from_title(title, r) ==
    IF IsBlank(title) THEN Strings_keywords.guidance
    ELSE ServiceReply("keywords", r, "", TRUE)

\* new.py 476-479: the line of one row.
KeyTermsLine(title, key_terms) ==
    IF key_terms # "" /\ ~StrIn("Failed to get key terms", key_terms)
    THEN "**" \o title \o "**: " \o key_terms
    ELSE "**" \o title \o "**: Could not extract key terms."

\* new.py 475: key_terms_results[i] with i the label of the row.
Lookup(df, k) == df[k].label + 1

\* new.py 466-470: the empty frame returns at once; otherwise one call per
\* row is made, in row order.
KeyTermsCall ==
    /\ pc = "idle"
    /\ op' = "keyterms"
    /\ \E df \in KeyTermsFrames :
         IF Len(df) = 0
         THEN /\ kt' = [Kt0 EXCEPT !.frame = df]
              /\ pc' = "done" /\ outcome' = "returned"
         ELSE /\ kt' = [frame |-> df, results |-> [k \in 1..Len(df) |-> None],
                        lines |-> << >>]
              /\ pc' = "k_gather" /\ UNCHANGED outcome
    /\ UNCHANGED << arg, sitePages, browserPage, driver, counter, data, visited,
                    shown, ret, cause, stats, doc, text, svc, sim, sel >>

\* new.py 471: asyncio.gather: the calls finish in any order, and the result
\* of the k-th call is the k-th element of the list.
KeyTermsTask ==
    /\ pc = "k_gather"
    /\ \E k \in 1..Len(kt.frame) :
         /\ kt.results[k] = None
         /\ \E r \in TitleResponses(kt.frame[k].Title) :
              kt' = [kt EXCEPT !.results[k] =
                         extract_key_terms_from_title(kt.frame[k].Title, r)]
    /\ stats' = Inc(stats, "requests")
    /\ UNCHANGED << op, pc, arg, sitePages, browserPage, driver, counter, data,
                    visited, shown, outcome, ret, cause, doc, text, svc, sim, sel >>

\* new.py 473-483: the loop over df.iterrows().  A label beyond the list
\* raises IndexError, which nothing catches.
KeyTermsCorrelate ==
    /\ pc = "k_gather"
    /\ \A k \in 1..Len(kt.frame) : kt.results[k] # None
    /\ IF \E k \in 1..Len(kt.frame) : Lookup(kt.frame, k) > Len(kt.results)
       THEN /\ outcome' = "raised" /\ cause' = "index_error"
            /\ UNCHANGED kt
       ELSE /\ kt' = [kt EXCEPT !.lines =
                        [k \in 1..Len(kt.frame) |->
                            KeyTermsLine(kt.frame[k].Title,
                                         kt.results[Lookup(kt.frame, k)])]]
            /\ outcome' = "returned" /\ UNCHANGED cause
    /\ pc' = "done"
    /\ UNCHANGED << op, arg, sitePages, browserPage, driver, counter, data,
                    visited, shown, ret, stats, doc, text, svc, sim, sel >>

(***************************************************************************)
(* process_selected_similar_circular(selected_title_with_date, df)         *)
(* new.py 430-456; the same steps open process_selected_circular (new.py   *)
(* 383-409) and run_summarization (app.py 282-311).                        *)
(***************************************************************************)
\* new.py 415, 547: f"{row['Date']} - {row['Title']}"
Option(row) == row.Date \o " - " \o row.Title

\* str.split(sep, 1): cut at the first occurrence of sep, if there is one.
FirstIndex(s, sep) ==
    IF StrIn(sep, s)
    THEN CHOOSE i \in 1..(Len(s) - Len(sep) + 1) :
            /\ SubSeq(s, i, i + Len(sep) - 1) = sep
            /\ \A j \in 1..(i - 1) : SubSeq(s, j, j + Len(sep) - 1) # sep
    ELSE 0
SplitOnce(s, sep) ==
    LET i == FirstIndex(s, sep) IN
    IF i = 0 THEN << s >>
    ELSE << SubSeq(s, 1, i - 1), SubSeq(s, i + Len(sep), Len(s)) >>

\* new.py 445: df[(df['Title'] == selected_title) & (df['Date'] == selected_date)]
RECURSIVE MatchingRows(_, _, _)
MatchingRows(df, selected_title, selected_date) ==
    IF Len(df) = 0 THEN << >>
    ELSE (IF Head(df).Title = selected_title /\ Head(df).Date = selected_date
          THEN << Head(df) >> ELSE << >>)
             \o MatchingRows(Tail(df), selected_title, selected_date)

\* The strings the handler returns before it has a summary.
Strings_select ==
    [please |-> "Please select a similar circular.",
     invalid |-> "Invalid similar circular selection format.",
     notfound |-> "Selected similar circular not found in the pre-scraped data.",
     notext |-> "Could not extract text from the similar circular link. The content might be a PDF or the page structure changed."]

\* The frames shown to the user: records of a page or of the corpus.  The
\* title is the title attribute as the page has it, the date is trimmed.
SelectRecords ==
    { Rec("01 Jan 2024", " Framework for Short Selling ", "https://www.sebi.gov.in/x1"),
      Rec("02 Jan 2024", "Master Circular - Mutual Funds", "https://www.sebi.gov.in/x2"),
      Rec("02 Jan 2024", "Master Circular - Mutual Funds", "https://www.sebi.gov.in/x3") }
SelectFrames ==
    { df \in SeqsUpTo(SelectRecords, MaxCorpus) :
        \A i, j \in 1..Len(df) : i # j => df[i] # df[j] }

\* What the service may answer to the summary request.
SelectResponses ==
    { Resp("network", 0, "Connection refused", FALSE, << >>),
      Resp("http", 200, "", TRUE, Envelope(<< [text |-> "Summary"] >>)) }

\* new.py 434-449: the option the user chose (choice 0: none) is split and
\* looked up; the link of the first matching row is the one fetched.
SelectCall ==
    /\ pc = "idle"
    /\ op' = "select"
    /\ \E df \in SelectFrames : \E k \in 0..Len(df) :
         LET selected_title_with_date == IF k = 0 THEN "" ELSE Option(df[k])
             parts == SplitOnce(selected_title_with_date, " - ")
             s0 == [Sel0 EXCEPT !.frame = df, !.choice = k,
                                !.option = selected_title_with_date]
         IN IF selected_title_with_date = "" \/ Len(df) = 0
            THEN /\ sel' = [s0 EXCEPT !.status = "please",
                                      !.summary = Strings_select.please]
                 /\ pc' = "done" /\ outcome' = "returned"
            ELSE IF Len(parts) < 2
            THEN /\ sel' = [s0 EXCEPT !.status = "invalid",
                                      !.summary = Strings_select.invalid]
                 /\ pc' = "done" /\ outcome' = "returned"
            ELSE LET selected_date == strip(parts[1])
                     selected_title == strip(parts[2])
                     selected_row == MatchingRows(df, selected_title, selected_date)
                     s1 == [s0 EXCEPT !.date = selected_date, !.title = selected_title]
                 IN IF Len(selected_row) = 0
                    THEN /\ sel' = [s1 EXCEPT !.status = "notfound",
                                              !.summary = Strings_select.notfound]
                         /\ pc' = "done" /\ outcome' = "returned"
                    ELSE /\ sel' = [s1 EXCEPT !.status = "found",
                                              !.link = selected_row[1].Link]
                         /\ pc' = "sel_text" /\ UNCHANGED outcome
    /\ UNCHANGED << arg, sitePages, browserPage, driver, counter, data, visited,
                    shown, ret, cause, stats, doc, text, svc, sim, kt >>

\* new.py 451-453: get_circular_text_from_link(circular_link) and the check
\* of its text.
SelectText ==
    /\ pc = "sel_text"
    /\ \E t \in ServiceTexts :
         /\ text' = t
         /\ IF IsBlank(t)
            THEN /\ sel' = [sel EXCEPT !.status = "notext",
                                       !.summary = Strings_select.notext]
                 /\ pc' = "done" /\ outcome' = "returned"
            ELSE /\ pc' = "sel_sum" /\ UNCHANGED << sel, outcome >>
    /\ UNCHANGED << op, arg, sitePages, browserPage, driver, counter, data,
                    visited, shown, ret, cause, stats, doc, svc, sim, kt >>

\* new.py 455-456: summarize_circular_text(circular_text, circular_link).
SelectSummarize ==
    /\ pc = "sel_sum"
    /\ stats' = Inc(stats, "requests")
    /\ \E r \in SelectResponses :
         sel' = [sel EXCEPT !.status = "summarized",
                            !.summary = ServiceReply("summarize", r, sel.link, TRUE)]
    /\ pc' = "done" /\ outcome' = "returned"
    /\ UNCHANGED << op, arg, sitePages, browserPage, driver, counter, data,
                    visited, shown, ret, cause, doc, text, svc, sim, kt >>

Next ==
    \/ HarvestCall
    \/ HarvestGet
    \/ HarvestPage
    \/ HarvestAdvance
    \/ ExtractCall
    \/ ExtractGet
    \/ ExtractCycle
    \/ ExtractTarget
    \/ DetailCall
    \/ DetailGet
    \/ DetailRead
    \/ SummarizeCall
    \/ SummarizePost
    \/ KeywordsCall
    \/ KeywordsPost
    \/ FindSimilarCall
    \/ KeyTermsCall
    \/ KeyTermsTask
    \/ KeyTermsCorrelate
    \/ SelectCall
    \/ SelectText
    \/ SelectSummarize

Spec == Init /\ [][Next]_vars


(***************************************************************************)
(* Properties.                                                             *)
(***************************************************************************)
\* The records of the scraped pages, in visit order.
RECURSIVE Flatten(_)
Flatten(pages) ==
    IF Len(pages) = 0 THEN << >> ELSE Head(pages) \o Flatten(Tail(pages))

\* `all` without every record whose link occurred at an earlier position.
KeepFirst(all) ==
    LET F[i \in 0..Len(all)] ==
            IF i = 0 THEN << >>
            ELSE IF \A j \in 1..(i - 1) : all[j].Link # all[i].Link
                 THEN Append(F[i - 1], all[i])
                 ELSE F[i - 1]
    IN F[Len(all)]

\* The causes an advance-by-one leaves behind when it fails.
AdvanceFailures ==
    {"timeout_old_table", "timeout_next", "error_wait", "error_click",
     "timeout_stale", "timeout_new_table"}

HarvestDone == op = "harvest" /\ pc = "done"
ExtractDone == op = "extract" /\ pc = "done"
DetailDone == op = "detail" /\ pc = "done"

\* C1: when harvest has returned or raised, the session it opened has been
\* closed (driver.quit was called).  The code does not do this: driver.get
\* at new.py 161 is outside the try block.
C1_HarvestReleasesSession == HarvestDone => driver # "open"

\* C2: when single-page extraction has returned or raised, the session it
\* opened has been closed.  The code does not do this: navigation errors,
\* click errors and a table without <tbody> leave the function without quit.
C2_ExtractReleasesSession == ExtractDone => driver # "open"

\* C3: when the advance after page k (1 <= k < pageCount) fails, harvest
\* returns (does not raise) exactly the records of pages 1..k without the
\* records whose link occurred earlier.
C3_PartialCorpusOnFailedAdvance ==
    (HarvestDone /\ cause \in AdvanceFailures) =>
        /\ outcome = "returned"
        /\ 1 <= counter /\ counter < arg
        /\ Len(visited) = counter
        /\ ret = KeepFirst(Flatten(visited))

C3_Witness ==
    /\ HarvestDone /\ cause = "timeout_next" /\ browserPage = sitePages
    /\ counter = 2 /\ arg = 3
    /\ Len(ret) > 0
    /\ Len(ret) < Len(Flatten(visited))

\* The failure points C4 names: the initial navigation, the table wait, the
\* click, a table without a body element.
C4_FailurePoints == {"navigation", "table_timeout", "error_click", "no_tbody"}

\* C4: harvest and single-page extraction never end by raising: at each of
\* these failure points the operation returns an empty or partial record
\* sequence.  The code does not do this: driver.get is outside every try
\* block, and single-page extraction catches neither a click error nor the
\* attribute error of a table without <tbody>.
C4_NoRawException ==
    (pc = "done" /\ op \in {"harvest", "extract"} /\ cause \in C4_FailurePoints)
        => outcome = "returned"

\* C5: the corpus harvest returns is the concatenation of the records of the
\* visited pages in visit order without every record whose link occurred
\* earlier: links pairwise distinct, first occurrences kept in order, and at
\* most pageCount * maxRowsPerPage records.
C5_CorpusIsFirstOccurrences ==
    (HarvestDone /\ outcome = "returned") =>
        /\ ret = KeepFirst(Flatten(visited))
        /\ \A i, j \in 1..Len(ret) : i # j => ret[i].Link # ret[j].Link
        /\ \A i \in 1..Len(Flatten(visited)) :
             \E j \in 1..Len(ret) : ret[j].Link = Flatten(visited)[i].Link
        /\ Len(ret) <= arg * maxRowsPerPage

C5_Witness ==
    /\ HarvestDone /\ outcome = "returned" /\ cause = "none"
    /\ Len(visited) = arg /\ arg >= 2
    /\ Len(ret) >= 3
    /\ Len(ret) < Len(Flatten(visited))


\* C6: when the site has P pages and the target page is beyond P, the
\* Paginator loop of single-page extraction ends in its timeout handler with
\* the page counter (reachedPage) equal to P; the failing cycle ran once, the
\* counter is the number of successful cycles plus one, and no records are
\* returned.
C6_PaginationExhausted ==
    /\ (ExtractDone /\ IsTimeout(cause)) =>
          /\ outcome = "returned" /\ ret = << >>
          /\ stats.failed = 1
          /\ counter = (stats.cycles - stats.failed) + 1
          /\ counter < arg
          /\ (cause = "timeout_next" /\ browserPage = sitePages) => counter = sitePages
    /\ (ExtractDone /\ arg > sitePages) =>
          /\ ret = << >>
          /\ counter <= sitePages

C6_Witness ==
    /\ ExtractDone /\ cause = "timeout_next"
    /\ arg = 3 /\ sitePages = 2 /\ counter = 2
    /\ stats.cycles = 2 /\ stats.clicks = 1
    /\ ret = << >>

\* The rows of a table that have exactly two cells and a link element in the
\* second cell, in row order.
LinkRows(rows) ==
    SelectSeq(rows, LAMBDA r : r.ncells = 2 /\ r.hasA)

HttpLink(l) == startswith(l, "http://") \/ startswith(l, "https://")

\* C7: every record of a returned page or corpus has a link that is absent,
\* empty, or starts with http:// or https://; an href that is present and is
\* not absolute is stored with the origin https://www.sebi.gov.in before it.
C7_LinksAbsolute ==
    /\ ((HarvestDone \/ ExtractDone) /\ outcome = "returned") =>
          \A i \in 1..Len(ret) :
              ret[i].Link \in {None, ""} \/ HttpLink(ret[i].Link)
    /\ (ExtractDone /\ cause = "none") =>
          /\ Len(ret) = Len(LinkRows(shown))
          /\ \A i \in 1..Len(ret) :
               LET h == LinkRows(shown)[i].href IN
               ret[i].Link = IF h \in {None, ""} \/ HttpLink(h)
                             THEN h
                             ELSE "https://www.sebi.gov.in" \o h

C7_Witness ==
    /\ ExtractDone /\ cause = "none" /\ Len(ret) = 2
    /\ shown[1].href = "x4" /\ ret[1].Link = "https://www.sebi.gov.inx4"
    /\ shown[2].href = "/x1" /\ ret[2].Link = "https://www.sebi.gov.in/x1"

\* t is s without its leading and trailing whitespace.
IsTrimOf(t, s) ==
    /\ t = "" \/ (~IsSpace(SubSeq(t, 1, 1)) /\ ~IsSpace(SubSeq(t, Len(t), Len(t))))
    /\ \E a \in 0..Len(s) :
          /\ a + Len(t) <= Len(s)
          /\ SubSeq(s, a + 1, a + Len(t)) = t
          /\ \A k \in (1..a) \cup ((a + Len(t) + 1)..Len(s)) : IsSpace(SubSeq(s, k, k))

\* C8 as stated: every row with exactly two cells gives one record, rows with
\* another cell count give none.
C8_Original ==
    (ExtractDone /\ cause = "none") =>
        Len(ret) = Len(SelectSeq(shown, LAMBDA r : r.ncells = 2))

\* C8 (amended): the records of a page are, in row order, one per row that has
\* exactly two cells and a link element in the second cell (date = trimmed
\* text of cell 1, title = the link's title attribute or else its trimmed
\* text, link from its href); every other row contributes no record.
C8_TwoCellLinkRows ==
    (ExtractDone /\ cause = "none") =>
        LET rows == LinkRows(shown) IN
        /\ Len(ret) = Len(rows)
        /\ \A i \in 1..Len(ret) :
             /\ IsTrimOf(ret[i].Date, rows[i].c1text)
             /\ IF rows[i].hasTitle
                THEN ret[i].Title = rows[i].title
                ELSE IsTrimOf(ret[i].Title, rows[i].atext)
             /\ rows[i].href \in {None, ""} => ret[i].Link = rows[i].href
             /\ ~(rows[i].href \in {None, ""}) =>
                   \/ ret[i].Link = rows[i].href
                   \/ ret[i].Link = base_url \o rows[i].href

C8_Witness ==
    /\ ExtractDone /\ cause = "none"
    /\ Len(shown) = 2 /\ Len(ret) = 1
    /\ shown[1].ncells = 2 /\ ~shown[1].hasA
    /\ shown[2] = rRel
    /\ ret[1] = [Date |-> "01 Jan 2024", Title |-> "Circular on Short Selling",
                 Link |-> "https://www.sebi.gov.in/x1"]

\* The trimmed texts of the <p> children of the container, in order.
ParagraphTexts(d) ==
    LET ps == SelectSeq(d.div, LAMBDA n : n.tag = "p")
    IN [i \in 1..Len(ps) |-> strip(ps[i].text)]

NonEmpty(ts) == SelectSeq(ts, LAMBDA t : t # "")

\* The trimmed non-empty strings of the container, and of the whole body.
DivTexts(d) == NonEmpty([i \in 1..Len(d.div) |-> strip(d.div[i].text)])
BodyTexts(d) ==
    NonEmpty([i \in 1..Len(d.pre) |-> strip(d.pre[i])]) \o
        (IF d.hasDiv THEN DivTexts(d) ELSE << >>)

DetailParsed == DetailDone /\ cause = "none"

\* C9 as stated: with the container present and some paragraph text, the
\* result is the newline-join of the trimmed text of every paragraph.
C9_Original ==
    (DetailParsed /\ doc.hasDiv /\ NonEmpty(ParagraphTexts(doc)) # << >>) =>
        text = join(ParagraphTexts(doc))

\* C9 (amended): with the container present and some paragraph text, the
\* result is the newline-join of the non-empty trimmed paragraph texts; with
\* the container present and no paragraph text, its raw trimmed text; with no
\* container, the trimmed text of the whole body.
C9_ExtractionPrecedence ==
    DetailParsed =>
        IF doc.hasDiv
        THEN IF NonEmpty(ParagraphTexts(doc)) # << >>
             THEN text = join(NonEmpty(ParagraphTexts(doc)))
             ELSE text = join(DivTexts(doc))
        ELSE text = join(BodyTexts(doc))

C9_Witness ==
    /\ DetailParsed /\ doc.hasDiv /\ doc.hasBody
    /\ doc.pre = << " menu " >>
    /\ doc.div = << Node("#text", " a "), Node("p", " ") >>
    /\ text = "a"

\* C10: extractBody never raises; on an internal failure it returns "", and
\* when it has returned no session is left open.
C10_DetailNeverRaises ==
    /\ op = "detail" => outcome # "raised"
    /\ DetailDone =>
          /\ outcome = "returned"
          /\ driver # "open"
          /\ cause # "none" => text = ""

C10_Witness ==
    /\ DetailDone /\ cause = "no_body" /\ text = ""
    /\ driver = "closed" /\ stats.opened = 1


\* sub occurs in s.
Contains(s, sub) ==
    \E i \in 1..(Len(s) - Len(sub) + 1) : SubSeq(s, i, i + Len(sub) - 1) = sub

\* Every character of t is whitespace (t is empty or whitespace-only).
AllSpace(t) == \A k \in 1..Len(t) : IsSpace(SubSeq(t, k, k))

ServiceDone == op \in {"summarize", "keywords"} /\ pc = "done"

\* C11: summarize with empty or whitespace-only text returns the fixed
\* guidance string and issues no request; a request is issued only for text
\* that is non-empty after trimming.
C11_EmptyInputNoRequest ==
    op = "summarize" =>
        /\ AllSpace(svc.input) => stats.requests = 0 /\ pc # "s_post"
        /\ (AllSpace(svc.input) /\ pc = "done") =>
              /\ outcome = "returned"
              /\ svc.reply = "Please provide text to summarize."
        /\ (stats.requests > 0 \/ pc = "s_post") => ~AllSpace(svc.input)

C11_Witness ==
    /\ op = "summarize" /\ pc = "done" /\ svc.input = " \n"
    /\ svc.reply = "Please provide text to summarize." /\ stats.requests = 0

\* The request failed: no response at all, or a status that is not 2xx.
RequestFailed == svc.resp.kind = "network" \/ svc.resp.status \in 400..599

\* C12: when the service answers with a non-2xx status or the request fails
\* at the network level, summarize and extractKeywords return (never raise)
\* a failure string that contains the error detail and carries no appended
\* source link.
C12_FailureString ==
    (ServiceDone /\ stats.requests > 0 /\ RequestFailed) =>
        /\ outcome = "returned"
        /\ startswith(svc.reply, "An error occurred while ")
        /\ Contains(svc.reply, svc.resp.detail)
        /\ ~Contains(svc.reply, "[Original Circular Link]")
        /\ ~Contains(svc.reply, "https://www.sebi.gov.in/x1")

C12_Witness ==
    /\ op = "summarize" /\ pc = "done" /\ svc.resp.status = 500
    /\ svc.resp.valid
    /\ svc.reply = "An error occurred while summarizing: 500 Server Error: Internal Server Error"

\* The decoded body has the whole path candidates[0].content.parts[0].text.
FullPath(result) ==
    /\ "candidates" \in DOMAIN result
    /\ Len(result.candidates) >= 1
    /\ "content" \in DOMAIN result.candidates[1]
    /\ "parts" \in DOMAIN result.candidates[1].content
    /\ Len(result.candidates[1].content.parts) >= 1
    /\ "text" \in DOMAIN result.candidates[1].content.parts[1]

\* C13: a decoded envelope that lacks any field of the path
\* candidates[0].content.parts[0].text makes summarize and extractKeywords
\* return the 'unexpected structure' string.  The code does not do this for
\* a first part without a text field: it returns the default text in the
\* shape of a success.
C13_UnexpectedStructure ==
    (ServiceDone /\ svc.resp.kind = "http" /\ svc.resp.status = 200
        /\ svc.resp.valid /\ ~FullPath(svc.resp.result)) =>
        svc.reply = StringsOf(op).unexpected

(***************************************************************************)
(* The similarity matcher                                                  *)
(***************************************************************************)
SimilarDone == op = "similar" /\ pc = "done"
Range(f) == { f[i] : i \in DOMAIN f }

\* C14: findSimilar returns no record whose trimmed title equals the trimmed
\* excludeTitle, whatever the keywords and the corpus, even when that title
\* matches a keyword.
C14_ExcludedTitleAbsent ==
    SimilarDone =>
        \A i \in 1..Len(sim.result) :
            strip(sim.result[i].Title) # strip(sim.exclude)

\* The corpus holds a record whose title matches a keyword and equals the
\* excluded title only after trimming, next to a record that is returned.
C14_Witness ==
    /\ SimilarDone
    /\ Len(sim.result) > 0
    /\ \E i \in 1..Len(sim.corpus) :
         /\ sim.corpus[i].Title # sim.exclude
         /\ strip(sim.corpus[i].Title) = strip(sim.exclude)
         /\ Search(ParseKeywords(sim.keywords), lower(sim.corpus[i].Title))

\* C15: the result of findSimilar is sorted by parsed date descending, ties
\* broken by title ascending, and every record whose date does not parse as
\* 'DD Mon YYYY' comes after all records with a parseable date.
C15_SortedResult ==
    SimilarDone =>
        \A i, j \in 1..Len(sim.result) :
            i < j =>
                LET di == to_datetime(sim.result[i].Date)
                    dj == to_datetime(sim.result[j].Date)
                IN /\ di = NaT => dj = NaT
                   /\ (di # NaT /\ dj # NaT) =>
                        \/ di > dj
                        \/ di = dj /\ ~StrLess(sim.result[j].Title, sim.result[i].Title)

\* Three records are returned in another order than the corpus has them: two
\* of the same day written differently, in title order, then one whose date
\* does not parse.
C15_Witness ==
    /\ SimilarDone
    /\ Len(sim.result) = 3
    /\ sim.result # sim.corpus
    /\ to_datetime(sim.result[1].Date) = to_datetime(sim.result[2].Date)
    /\ to_datetime(sim.result[1].Date) # NaT
    /\ sim.result[1].Date # sim.result[2].Date
    /\ StrLess(sim.result[1].Title, sim.result[2].Title)
    /\ to_datetime(sim.result[3].Date) = NaT

\* Keyword k occurs in title t as a whole word: an occurrence that neither
\* follows nor precedes a word character.
WholeWord(k, t) ==
    \E i \in 1..(Len(t) - Len(k) + 1) :
        /\ SubSeq(t, i, i + Len(k) - 1) = k
        /\ ~IsWordAt(t, i - 1)
        /\ ~IsWordAt(t, i + Len(k))
MatchesAKeyword(keywords, title) ==
    \E n \in 1..Len(keywords) : WholeWord(keywords[n], lower(title))

\* C16: findSimilar returns exactly the corpus records whose title contains
\* at least one keyword of the parsed keyword set as a whole word, without
\* regard to case, minus the excluded title: no matching record is missing
\* and no non-matching record is included.  The code does not do this for a
\* keyword that begins or ends with a character that is not a word character.
C16_WholeWordMatch ==
    SimilarDone =>
        /\ Range(sim.result) \subseteq Range(sim.corpus)
        /\ \A r \in Range(sim.corpus) :
             r \in Range(sim.result) <=>
                 /\ MatchesAKeyword(ParseKeywords(sim.keywords), r.Title)
                 /\ strip(r.Title) # strip(sim.exclude)

(***************************************************************************)
(* The page counters                                                       *)
(***************************************************************************)
\* The cycles of the run that completed: click, old table stale, new table
\* present.
Completed == stats.cycles - stats.failed
TargetCauses == {"none", "no_rows", "no_table", "no_tbody", "table_timeout", "table_error"}

\* C17: in the Paginator loop of extract the page counter starts at 1, is at
\* most the target page at every loop entry, is incremented by exactly one by
\* a completed cycle and by nothing else, and the listing table is extracted
\* only where the counter equals the target page and exactly target - 1
\* cycles have completed.
C17_PageCounter ==
    /\ [](op = "extract" /\ pc = "e_loop" =>
            /\ 1 <= counter /\ counter <= arg
            /\ counter = Completed + 1)
    /\ [][op' = "extract" /\ counter' # counter =>
            \/ pc = "e_get" /\ counter' = 1
            \/ /\ pc = "e_loop" /\ counter' = counter + 1
               /\ stats'.cycles = stats.cycles + 1
               /\ stats'.failed = stats.failed
               /\ browserPage' = browserPage + 1]_vars
    /\ [][op = "extract" /\ pc = "e_loop" /\ stats'.failed = stats.failed
            /\ stats'.cycles = stats.cycles + 1 => counter' = counter + 1]_vars
    /\ [](ExtractDone /\ cause \in TargetCauses =>
            /\ counter = arg
            /\ Completed = arg - 1
            /\ stats.clicks = arg - 1)

\* Page 3 was asked for and extracted after two completed cycles.
C17_Witness ==
    /\ ExtractDone /\ cause = "none"
    /\ arg = 3 /\ counter = 3
    /\ stats.cycles = 2 /\ stats.failed = 0
    /\ Len(ret) > 0

\* C18: a run of harvest(pageCount), pageCount >= 1, opens one session and
\* issues one navigation; pages are processed in order 1..pageCount; an
\* advance is attempted at most once per page and only after that page has
\* been extracted and appended; no advance follows page pageCount (at most
\* pageCount - 1 clicks), and no page is extracted after a failed advance.
C18_HarvestOrder ==
    /\ [](op = "harvest" =>
            /\ stats.opened <= 1 /\ stats.navs <= 1
            /\ pc \in {"h_page", "h_adv"} => stats.opened = 1 /\ stats.navs = 1
            /\ (pc = "done" /\ cause \notin {"bad_arg", "init_failed", "init_error"}) =>
                   stats.opened = 1 /\ stats.navs = 1
            /\ Len(visited) <= arg
            /\ pc = "h_page" => counter = Len(visited) + 1 /\ counter <= arg
            /\ stats.cycles <= Len(visited)
            /\ stats.cycles <= arg - 1 \/ arg <= 0
            /\ stats.clicks <= stats.cycles
            /\ stats.failed >= 1 => pc = "done")
    /\ [][op = "harvest" /\ stats'.cycles # stats.cycles =>
            /\ stats'.cycles = stats.cycles + 1
            /\ Len(visited) = stats.cycles + 1
            /\ data = Flatten(visited)
            /\ counter < arg]_vars
    /\ [][op = "harvest" /\ visited' # visited =>
            /\ stats.failed = 0
            /\ Len(visited') = Len(visited) + 1
            /\ Len(visited') = counter
            /\ browserPage = counter]_vars

\* Three pages were harvested with two advances between them.
C18_Witness ==
    /\ HarvestDone /\ cause = "none"
    /\ arg = 3 /\ Len(visited) = 3
    /\ stats.cycles = 2 /\ stats.clicks = 2 /\ stats.failed = 0
    /\ stats.opened = 1 /\ stats.navs = 1

(***************************************************************************)
(* Key terms of many titles                                                *)
(***************************************************************************)
KeyTermsDone == op = "keyterms" /\ pc = "done"

\* C19: when keywords are extracted for many titles at once, the gathered
\* results are correlated back to input order: for every input frame,
\* including one whose row labels are not 0..n-1, the title of the i-th row
\* is paired with the result of the call issued for that row, and no lookup
\* falls outside the result sequence.  The code does not do this: it looks
\* the result up by the label of the row.
C19_CorrelatedByRow ==
    (KeyTermsDone /\ Len(kt.frame) > 0) =>
        /\ outcome = "returned"
        /\ Len(kt.lines) = Len(kt.frame)
        /\ \A k \in 1..Len(kt.frame) :
             kt.lines[k] = KeyTermsLine(kt.frame[k].Title, kt.results[k])

(***************************************************************************)
(* The identity of a record                                                *)
(***************************************************************************)
\* The link, or title and date when the link is absent or empty.
Identity(r) ==
    IF r.Link # None /\ r.Link # ""
    THEN << "link", r.Link >>
    ELSE << "title+date", r.Title, r.Date >>

\* `all` without every record whose identity occurred at an earlier position.
KeepFirstIdentity(all) ==
    LET F[i \in 0..Len(all)] ==
            IF i = 0 THEN << >>
            ELSE IF \A j \in 1..(i - 1) : Identity(all[j]) # Identity(all[i])
                 THEN Append(F[i - 1], all[i])
                 ELSE F[i - 1]
    IN F[Len(all)]

\* C20: the identity of a record is its link, or title and date when the
\* link is absent: the deduplication of harvest keeps two records without a
\* link that differ in title or date, and removes a record only when an
\* earlier record has the same identity.  The code does not do this: it
\* compares the link alone, and absent links are equal to each other.
C20_IdentityDedup ==
    (HarvestDone /\ outcome = "returned") =>
        ret = KeepFirstIdentity(Flatten(visited))

(***************************************************************************)
(* The selection                                                           *)
(***************************************************************************)
\* C21: for every record r of the frame shown to the user, the option built
\* as '<Date> - <Title>' is parsed back to r itself, so the link fetched and
\* summarized is the link of r; also for a title with surrounding
\* whitespace or containing ' - ', and for two records of one title and date
\* with different links.  The code does not do this: it trims the parsed
\* title but compares it with the untrimmed one, and takes the first row of
\* the title and date.
C21_SelectionRoundTrip ==
    (op = "select" /\ sel.choice >= 1) =>
        /\ sel.status \notin {"invalid", "notfound"}
        /\ sel.link = sel.frame[sel.choice].Link

=============================================================================
